---- MODULE Spec2Model ----
(***************************************************************************)
(* md_translate: the run of Application (application.py) over its source   *)
(* files, on the single-process path and on the worker-pool path, and the  *)
(* rendering of the block model (document/_blocks.py).                     *)
(***************************************************************************)
EXTENDS Naturals, Integers, Sequences, FiniteSets, TLC

\* ------------------------------------------------------------------ bounds
\* The largest number of paths in settings.path; each yields at most one source
\* file, so it bounds the source files _get_files_to_process returns too.
MaxFiles == 2
\* The largest value of settings.processes.
MaxProcesses == 2

\* ------------------------------------------------------------- Application
VARIABLES
    settings_path,  \* settings.path: one Path, or a list of Paths
    processes,      \* settings.processes
    source_files,   \* the list _get_files_to_process returns; document d is source_files[d]
    runPc,          \* where Application.run stands
    providers,      \* how many times _get_translation_provider has run
    tasks,          \* the pool's task queue: the chunks starmap has not handed out
    chunkFailed,    \* a task of starmap raised
    exec,           \* per executor (0: the main process, w >= 1: worker w)
    doc,            \* per document: what process_file did for it
    held            \* per capability instance: the document holding it, 0 if none

\* ---------------------------------------------------------------- blocks
VARIABLES
    block,          \* the node given to __str__ and to should_be_translated
    rendered,       \* the outcome of str(block)
    needs,          \* what block.should_be_translated() returned, None before the call
    tree,           \* the tree that is encoded
    mapping,        \* the encoded mapping, as the decoder's caller holds it
    tampered,       \* the edit made to the mapping before it was decoded, if any
    decoded         \* the outcomes of the constructions from mapping, oldest first

appVars == <<settings_path, processes, source_files, runPc, providers, tasks, chunkFailed, exec, doc, held>>
renderVars == <<block, rendered, needs>>
codecVars == <<tree, mapping, tampered, decoded>>
vars == <<appVars, renderVars, codecVars>>

\* Optional[T]: None is the empty tuple, a value v is <<v>>.
None == <<>>
Some(v) == <<v>>

\* The outcome of a call: the string returned, or the exception raised.
Ok(s) == [ok |-> TRUE, str |-> s, exc |-> ""]
Raise(x) == [ok |-> FALSE, str |-> "", exc |-> x]
NotRendered == Raise("not rendered")
NoBlock == [block_type |-> "none"]

Docs == 1..MaxFiles
Executors == 0..MaxProcesses
\* Capability instances: 0 is the one _get_translation_provider returns; k >= 1
\* is the copy unpickled with the k-th task of the pool.
Instances == 0..MaxFiles

NoDoc == [read |-> "none", gateEvals |-> 0, gate |-> "none", enterCalls |-> 0,
          entered |-> 0, exited |-> 0, translateCalls |-> 0, translate |-> "none",
          unheldUse |-> FALSE, writeCalls |-> 0, echoed |-> FALSE, reported |-> {},
          outcome |-> "pending", instance |-> -1, worker |-> -1, file |-> <<>>]

IdleExec == [pc |-> "idle", cur |-> 0, rest |-> <<>>, inst |-> -1, exc |-> FALSE]

RECURSIVE Range(_, _)
\* <<lo, lo+1, ..., hi>>
Range(lo, hi) == IF lo > hi THEN <<>> ELSE <<lo>> \o Range(lo + 1, hi)

\* multiprocessing.Pool._map_async: chunksize, extra = divmod(len(iterable),
\* len(pool) * 4); if extra: chunksize += 1
Chunksize(n, p) == (n \div (p * 4)) + (IF n % (p * 4) # 0 THEN 1 ELSE 0)

RECURSIVE Chunks(_, _, _)
\* Pool._get_tasks: the items cut into batches of `size`, numbered from k.
Chunks(items, size, k) ==
    IF items = <<>> THEN <<>>
    ELSE LET m == IF Len(items) < size THEN Len(items) ELSE size
         IN  <<[id |-> k, items |-> SubSeq(items, 1, m)]>>
             \o Chunks(SubSeq(items, m + 1, Len(items)), size, k + 1)

\* The capability instance a task works on. run_single_process passes the one
\* provider object to every call; starmap pickles the argument tuples, so each
\* task of the pool unpickles a copy of its own in the worker's process.
SharedProvider(e, chunkId) == 0
TaskProvider(e, chunkId) == IF e = 0 THEN 0 ELSE chunkId

\* ------------------------------------------------ process_file: control flow
\* except Exception around from_file: log and return; otherwise the gate.
FromFileFallsThrough(raised) == "gate"
AfterFromFile(raised) == IF raised THEN "return" ELSE "gate"

\* if not document.should_be_translated(...): log and return.
GateIgnored(should) == "enter"
GateSkipsAcquire(should) == IF should THEN "translate" ELSE "return"
AfterGate(should) == IF should THEN "enter" ELSE "return"

\* try/except inside the with block: on both paths the block is left through
\* the context manager's __exit__.
ReturnBypassesExit(raised) == IF raised THEN "return" ELSE "exit"
WriteInsideWith(raised) == IF raised THEN "exit" ELSE "write"
AfterTranslate(raised) == "exit"

\* After __exit__: the `return` of the except clause completes, or control
\* falls out of the with block to document.write.
WriteAfterFailure(raised) == "write"
AfterExit(raised) == IF raised THEN "return" ELSE "write"

\* self._logger.error(...) in the two except clauses.
ReportRead(raised) == IF raised THEN {"read"} ELSE {}
ReportTranslate(raised) == IF raised THEN {"translate"} ELSE {}

\* ------------------------------------------------------ paths and the files
\* A Path is the tuple of its parts. The file system the run sees: three files
\* at the top, a directory docs holding a source file, a translated file and a
\* file that is no markdown, a directory without markdown files, and a path
\* that does not exist.
PathA == <<"a.md">>
PathATranslated == <<"a_translated.md">>
PathB == <<"b.md">>
PathC == <<"c.md">>
PathDocs == <<"docs">>
PathEmpty == <<"empty">>
PathMissing == <<"missing">>
FsFiles == {PathA, PathATranslated, PathB, PathC,
            <<"docs", "a.md">>, <<"docs", "c_translated.md">>, <<"docs", "n.txt">>}
FsDirs == {PathDocs, PathEmpty}
PathEntries == <<PathA, PathATranslated, PathB, PathC, PathDocs, PathEmpty, PathMissing>>

\* Path.exists, Path.is_file, Path.name
Exists(p) == p \in FsFiles \cup FsDirs
IsFile(p) == p \in FsFiles
Name(p) == p[Len(p)]

\* sub in s, of two str
Contains(s, sub) ==
    \E i \in 1..(Len(s) - Len(sub) + 1) : SubSeq(s, i, i + Len(sub) - 1) = sub
EndsWith(s, suffix) ==
    Len(s) >= Len(suffix) /\ SubSeq(s, Len(s) - Len(suffix) + 1, Len(s)) = suffix

\* path.glob('**/*.md'): the markdown files below the directory, in an order
\* the directory decides.
Globbed(dir) ==
    {f \in FsFiles : Len(f) > Len(dir) /\ SubSeq(f, 1, Len(dir)) = dir
                     /\ EndsWith(Name(f), ".md")}
Orders(S) ==
    {s \in [1..Cardinality(S) -> S] : {s[i] : i \in 1..Cardinality(S)} = S}
GlobOrders ==
    {g \in [FsDirs -> UNION {Orders(Globbed(dir)) : dir \in FsDirs}] :
        \A dir \in FsDirs : g[dir] \in Orders(Globbed(dir))}

\* if not isinstance(path, list): path = [path]
AsList(path) == IF path.is_list THEN path.value ELSE <<path.value>>

RECURSIVE CollectFiles(_, _)
\* The loop over the paths: ClickException at the first path that does not
\* exist; a file is taken as it is, a directory contributes what glob finds.
CollectFiles(paths, g) ==
    IF paths = <<>> THEN [exc |-> "", files |-> <<>>]
    ELSE LET p == Head(paths)
         IN  IF ~Exists(p) THEN [exc |-> "ClickException", files |-> <<>>]
             ELSE LET rest == CollectFiles(Tail(paths), g)
                  IN  IF rest.exc # "" THEN rest
                      ELSE [exc |-> "",
                            files |-> (IF IsFile(p) THEN <<p>> ELSE g[p]) \o rest.files]

\* source_files: the files whose name does not contain '_translated'.
IsSource(f) == ~Contains(Name(f), "_translated")
NothingFiltered(files) == files
SourceFiles(files) == SelectSeq(files, IsSource)

\* common_path_part: the parts of the first source file that occur among the
\* parts of every source file.
InParts(part, f) == \E i \in 1..Len(f) : f[i] = part
CommonPathPart(files) ==
    LET keep(part) == \A k \in 1..Len(files) : InParts(part, files[k])
    IN  SelectSeq(files[1], keep)

\* f.relative_to(common) raises ValueError unless common is a prefix of f.
RelativeToRaises(f, common) ==
    ~(Len(common) <= Len(f) /\ SubSeq(f, 1, Len(common)) = common)

\* _get_files_to_process, with the order glob yields: the exception it raises
\* ("" if none) and the list it returns.
FilesToProcess(path, g) ==
    LET found == CollectFiles(AsList(path), g)
        sources == SourceFiles(found.files)
    IN  IF found.exc # "" THEN found
        ELSE IF sources = <<>>
        THEN [exc |-> "IndexError", files |-> <<>>]        \* source_files[0]
        ELSE IF \E k \in 1..Len(sources) :
                    RelativeToRaises(sources[k], CommonPathPart(sources))
        THEN [exc |-> "ValueError", files |-> <<>>]
        ELSE [exc |-> "", files |-> sources]

RECURSIVE PickPaths(_, _)
\* The entries of PathEntries whose index is in S, from index i on, in order.
PickPaths(i, S) ==
    IF i > Len(PathEntries) THEN <<>>
    ELSE (IF i \in S THEN <<PathEntries[i]>> ELSE <<>>) \o PickPaths(i + 1, S)

\* The values of settings.path drawn: one Path, or a list of at most MaxFiles
\* different Paths.
PathSettings ==
    {[is_list |-> FALSE, value |-> PathEntries[i]] : i \in 1..Len(PathEntries)}
    \cup {[is_list |-> TRUE, value |-> PickPaths(1, S)] :
            S \in {T \in SUBSET (1..Len(PathEntries)) : Cardinality(T) <= MaxFiles}}

\* ------------------------------------------------------------------- Init
Init ==
    /\ settings_path \in PathSettings
    /\ processes \in 1..MaxProcesses
    /\ source_files = <<>>
    /\ runPc = "start"
    /\ providers = 0
    /\ tasks = <<>>
    /\ chunkFailed = FALSE
    /\ exec = [e \in Executors |-> IdleExec]
    /\ doc = [d \in Docs |-> NoDoc]
    /\ held = [i \in Instances |-> 0]
    /\ block = NoBlock
    /\ rendered = NotRendered
    /\ needs = None
    /\ tree = NoBlock
    /\ mapping = None
    /\ tampered = None
    /\ decoded = <<>>

\* _get_files_to_process, called first by run_single_process and by
\* run_multiple_processes: an exception of it leaves run.
GetFilesToProcess ==
    /\ runPc = "start"
    /\ \E g \in GlobOrders :
        LET r == FilesToProcess(settings_path, g)
        IN  /\ runPc' = IF r.exc # "" THEN "raised" ELSE "provider"
            /\ source_files' = r.files
    /\ UNCHANGED <<settings_path, processes, providers, tasks, chunkFailed, exec, doc, held>>
    /\ UNCHANGED <<renderVars, codecVars>>

\* run_single_process: the provider is made once and the loop starts.
RunSingleProcess ==
    /\ runPc = "provider"
    /\ processes = 1
    /\ providers' = providers + 1
    /\ runPc' = "loop"
    /\ exec' = [exec EXCEPT ![0] = [pc |-> "from_file", cur |-> 1,
                                    rest |-> Range(2, Len(source_files)),
                                    inst |-> TaskProvider(0, 0), exc |-> FALSE]]
    /\ UNCHANGED <<settings_path, processes, source_files, tasks, chunkFailed, doc, held>>
    /\ UNCHANGED <<renderVars, codecVars>>

\* run_multiple_processes: the provider is made once, the pool is started and
\* starmap queues its tasks.
RunMultipleProcesses ==
    /\ runPc = "provider"
    /\ processes # 1
    /\ providers' = providers + 1
    /\ runPc' = "pool"
    /\ tasks' = Chunks(Range(1, Len(source_files)),
                       Chunksize(Len(source_files), processes), 1)
    /\ UNCHANGED <<settings_path, processes, source_files, chunkFailed, exec, doc, held>>
    /\ UNCHANGED <<renderVars, codecVars>>

\* A pool worker takes the next task and calls process_file on its first item.
TakeTask(w) ==
    /\ runPc = "pool"
    /\ w \in 1..processes
    /\ exec[w].pc = "idle"
    /\ tasks # <<>>
    /\ LET t == Head(tasks)
       IN  exec' = [exec EXCEPT ![w] = [pc |-> "from_file", cur |-> Head(t.items),
                                        rest |-> Tail(t.items),
                                        inst |-> TaskProvider(w, t.id), exc |-> FALSE]]
    /\ tasks' = Tail(tasks)
    /\ UNCHANGED <<settings_path, processes, source_files, runPc, providers, chunkFailed, doc, held>>
    /\ UNCHANGED <<renderVars, codecVars>>

\* process_file has ended for exec[e].cur, by returning or by raising.
\* Returning: the loop (or the task's batch) goes on with the next file.
\* Raising: on the single-process path the exception leaves the loop and run;
\* in a worker it ends the task's batch and starmap re-raises it once every
\* task is done.
Ended(e, how) ==
    IF how = "returned" /\ exec[e].rest # <<>>
    THEN /\ exec' = [exec EXCEPT ![e].pc = "from_file", ![e].cur = Head(exec[e].rest),
                                 ![e].rest = Tail(exec[e].rest), ![e].exc = FALSE]
         /\ UNCHANGED <<runPc, chunkFailed>>
    ELSE /\ exec' = [exec EXCEPT ![e] = IdleExec]
         /\ runPc' = IF e # 0 THEN runPc
                     ELSE IF how = "raised" THEN "raised" ELSE "returned"
         /\ chunkFailed' = (chunkFailed \/ (e # 0 /\ how = "raised"))

\* The step of process_file at `next`: a pc to go on with, or the end.
Goto(e, d, next, how) ==
    IF next = "return"
    THEN Ended(e, how)
    ELSE /\ exec' = [exec EXCEPT ![e].pc = next]
         /\ UNCHANGED <<runPc, chunkFailed>>

\* MarkdownDocument.from_file inside try/except Exception.
FromFile(e) ==
    /\ exec[e].pc = "from_file"
    /\ \E raised \in BOOLEAN :
        LET d == exec[e].cur
        IN  /\ doc' = [doc EXCEPT ![d].read = IF raised THEN "raised" ELSE "ok",
                                  ![d].reported = @ \cup ReportRead(raised),
                                  ![d].worker = e,
                                  ![d].file = source_files[d],
                                  ![d].outcome = IF AfterFromFile(raised) = "return"
                                                 THEN "returned" ELSE @]
            /\ Goto(e, d, AfterFromFile(raised), "returned")
    /\ UNCHANGED <<settings_path, processes, source_files, providers, tasks, held>>
    /\ UNCHANGED <<renderVars, codecVars>>

\* document.should_be_translated(new_file, overwrite): true, false, or an
\* exception, which nothing in process_file catches.
Gate(e) ==
    /\ exec[e].pc = "gate"
    /\ \E r \in {"true", "false", "raise"} :
        LET d == exec[e].cur
            next == IF r = "raise" THEN "return" ELSE AfterGate(r = "true")
        IN  /\ doc' = [doc EXCEPT ![d].gateEvals = @ + 1,
                                  ![d].gate = r,
                                  ![d].outcome = IF r = "raise" THEN "raised"
                                                 ELSE IF next = "return" THEN "returned"
                                                 ELSE @]
            /\ Goto(e, d, next, IF r = "raise" THEN "raised" ELSE "returned")
    /\ UNCHANGED <<settings_path, processes, source_files, providers, tasks, held>>
    /\ UNCHANGED <<renderVars, codecVars>>

\* with translation_provider as provider: __enter__ acquires the capability,
\* or raises and the with block is not entered.
Enter(e) ==
    /\ exec[e].pc = "enter"
    /\ \E ok \in BOOLEAN :
        LET d == exec[e].cur
            i == exec[e].inst
        IN  /\ doc' = [doc EXCEPT ![d].enterCalls = @ + 1,
                                  ![d].entered = IF ok THEN @ + 1 ELSE @,
                                  ![d].instance = IF ok THEN i ELSE @,
                                  ![d].outcome = IF ok THEN @ ELSE "raised"]
            /\ held' = IF ok THEN [held EXCEPT ![i] = d] ELSE held
            /\ Goto(e, d, IF ok THEN "translate" ELSE "return", "raised")
    /\ UNCHANGED <<settings_path, processes, source_files, providers, tasks>>
    /\ UNCHANGED <<renderVars, codecVars>>

\* document.translate(provider) inside try/except Exception.
Translate(e) ==
    /\ exec[e].pc = "translate"
    /\ \E raised \in BOOLEAN :
        LET d == exec[e].cur
            i == exec[e].inst
            next == AfterTranslate(raised)
        IN  /\ doc' = [doc EXCEPT ![d].translateCalls = @ + 1,
                                  ![d].translate = IF raised THEN "raised" ELSE "ok",
                                  ![d].unheldUse = (@ \/ held[i] # d),
                                  ![d].instance = i,
                                  ![d].reported = @ \cup ReportTranslate(raised),
                                  ![d].outcome = IF next = "return" THEN "returned" ELSE @]
            /\ IF next = "return"
               THEN Ended(e, "returned")
               ELSE /\ exec' = [exec EXCEPT ![e].pc = next, ![e].exc = raised]
                    /\ UNCHANGED <<runPc, chunkFailed>>
    /\ UNCHANGED <<settings_path, processes, source_files, providers, tasks, held>>
    /\ UNCHANGED <<renderVars, codecVars>>

\* The with block is left: __exit__ releases the capability. It may raise, and
\* nothing in process_file catches that.
Exit(e) ==
    /\ exec[e].pc = "exit"
    /\ \E ok \in BOOLEAN :
        LET d == exec[e].cur
            i == exec[e].inst
            next == IF ok THEN AfterExit(exec[e].exc) ELSE "return"
        IN  /\ doc' = [doc EXCEPT ![d].exited = @ + 1,
                                  ![d].outcome = IF ~ok THEN "raised"
                                                 ELSE IF next = "return" THEN "returned"
                                                 ELSE @]
            /\ held' = [held EXCEPT ![i] = 0]
            /\ Goto(e, d, next, IF ok THEN "returned" ELSE "raised")
    /\ UNCHANGED <<settings_path, processes, source_files, providers, tasks>>
    /\ UNCHANGED <<renderVars, codecVars>>

\* document.write(new_file, save_temp_on_complete), outside any try.
Write(e) ==
    /\ exec[e].pc = "write"
    /\ \E ok \in BOOLEAN :
        LET d == exec[e].cur
        IN  /\ doc' = [doc EXCEPT ![d].writeCalls = @ + 1,
                                  ![d].outcome = IF ok THEN @ ELSE "raised"]
            /\ Goto(e, d, IF ok THEN "echo" ELSE "return", "raised")
    /\ UNCHANGED <<settings_path, processes, source_files, providers, tasks, held>>
    /\ UNCHANGED <<renderVars, codecVars>>

\* click.echo('Processed file: ...'), then process_file returns.
Echo(e) ==
    /\ exec[e].pc = "echo"
    /\ LET d == exec[e].cur
       IN  /\ doc' = [doc EXCEPT ![d].echoed = TRUE, ![d].outcome = "returned"]
           /\ Ended(e, "returned")
    /\ UNCHANGED <<settings_path, processes, source_files, providers, tasks, held>>
    /\ UNCHANGED <<renderVars, codecVars>>

\* starmap returns once every task is done, re-raising the first exception of
\* a task; the pool's with block is left.
PoolJoin ==
    /\ runPc = "pool"
    /\ tasks = <<>>
    /\ \A w \in 1..processes : exec[w].pc = "idle"
    /\ runPc' = IF chunkFailed THEN "raised" ELSE "returned"
    /\ UNCHANGED <<settings_path, processes, source_files, providers, tasks, chunkFailed, exec, doc, held>>
    /\ UNCHANGED <<renderVars, codecVars>>

Next ==
    \/ GetFilesToProcess
    \/ RunSingleProcess
    \/ RunMultipleProcesses
    \/ PoolJoin
    \/ \E e \in Executors :
        \/ TakeTask(e)
        \/ FromFile(e)
        \/ Gate(e)
        \/ Enter(e)
        \/ Translate(e)
        \/ Exit(e)
        \/ Write(e)
        \/ Echo(e)

Spec == Init /\ [][Next]_vars

\* ------------------------------------------------------------- block model
\* The largest heading level drawn.
MaxLevel == 2
\* The largest number of children of a container drawn.
MaxChildren == 2

Texts == {"", "Hola"}
Translations == {None, Some(""), Some("Hello")}

BaseBlock == [block_type |-> "BaseBlock"]
Translatable(text, translated_text) ==
    [block_type |-> "Translatable", text |-> text, translated_text |-> translated_text]
RawDataBlock(name, data) ==
    [block_type |-> "RawDataBlock", name |-> name, data |-> data]
TextBlock(text, translated_text, strong, emphasis) ==
    [block_type |-> "TextBlock", text |-> text, translated_text |-> translated_text,
     strong |-> strong, emphasis |-> emphasis]
LinkBlock(link, title, text) ==
    [block_type |-> "LinkBlock", link |-> link, title |-> title, text |-> text]
ImageBlock(src, alt, title) ==
    [block_type |-> "ImageBlock", src |-> src, alt |-> alt, title |-> title]
HeadingBlock(level, text, translated_text) ==
    [block_type |-> "HeadingBlock", level |-> level, text |-> text,
     translated_text |-> translated_text]
SeparatorBlock == [block_type |-> "SeparatorBlock"]
CodeBlock(code, language) ==
    [block_type |-> "CodeBlock", code |-> code, language |-> language]
HtmlBlock(code) == [block_type |-> "HtmlBlock", code |-> code]
ListItemBlock(children) == [block_type |-> "ListItemBlock", children |-> children]
ListBlock(children, ordered) ==
    [block_type |-> "ListBlock", children |-> children, ordered |-> ordered]

\* ImageBlock.alt: pydantic.Field(default=str), the class str itself.
DefaultAlt == <<"class", "str">>

\* All sequences over S of length at most n.
SeqsUpTo(S, n) == UNION {[1..k -> S] : k \in 0..n}

\* str '*' int
RECURSIVE Repeat(_, _)
Repeat(s, n) == IF n <= 0 THEN "" ELSE s \o Repeat(s, n - 1)

Digit(n) == CASE n = 0 -> "0" [] n = 1 -> "1" [] n = 2 -> "2" [] n = 3 -> "3"
              [] n = 4 -> "4" [] n = 5 -> "5" [] n = 6 -> "6" [] n = 7 -> "7"
              [] n = 8 -> "8" [] n = 9 -> "9"

RECURSIVE IntToStr(_)
\* str(n) of a natural number
IntToStr(n) == IF n < 10 THEN Digit(n) ELSE IntToStr(n \div 10) \o Digit(n % 10)

\* str(v) of an Optional[str]
OptToStr(v) == IF v = None THEN "None" ELSE v[1]

RECURSIVE Str(_)
RECURSIVE Join(_, _)
\* sep.join(...) over the outcomes of the items: the first exception, if any,
\* leaves the join.
Join(sep, outs) ==
    IF outs = <<>> THEN Ok("")
    ELSE IF ~Head(outs).ok THEN Head(outs)
    ELSE IF Len(outs) = 1 THEN Head(outs)
    ELSE LET r == Join(sep, Tail(outs))
         IN  IF r.ok THEN Ok(Head(outs).str \o sep \o r.str) ELSE r

\* Translatable.__str__
TranslatableStr(b) ==
    IF b.translated_text = None
    THEN Raise("TypeError")     \* '\n\n'.join([self.text, None])
    ELSE Ok(b.text)

\* TextBlock.__str__
TextBlockStr(b) ==
    IF b.strong THEN Ok("**" \o b.text \o "**")
    ELSE IF b.emphasis THEN Ok("*" \o b.text \o "*")
    ELSE Ok(b.text)

\* LinkBlock.__str__
LinkBlockStr(b) ==
    IF b.text = None
    THEN Raise("TypeError")     \* map(str, None)
    ELSE LET joined == Join(" ", [i \in 1..Len(b.text[1]) |-> Str(b.text[1][i])])
         IN  IF ~joined.ok THEN joined
             ELSE Ok("[" \o (IF joined.str # "" THEN joined.str ELSE OptToStr(b.title))
                     \o "](" \o b.link \o ")")

\* ImageBlock.__str__
ImageBlockStr(b) ==
    Ok("![" \o (IF b.alt = DefaultAlt THEN "<class 'str'>" ELSE b.alt[1])
       \o "](" \o b.src \o ")")

\* HeadingBlock.__str__
HeadingBlockStr(b) == Ok(Repeat("#", b.level) \o " " \o b.text)

\* The three backquotes of a code fence (a TLA+ string holds no backquote).
Fence == "<fence>"

\* CodeBlock.__str__
CodeBlockStr(b) ==
    LET lang == IF b.language = None THEN "" ELSE b.language[1]
    IN  Ok(Fence \o lang \o "\n" \o b.code \o "\n" \o Fence)

\* ListItemBlock.__str__
ListItemBlockStr(b) ==
    Join("", [i \in 1..Len(b.children) |-> Str(b.children[i])])

\* ListBlock.__str__: enumerate(self.children) counts from 0.
ListBlockStr(b) ==
    LET line(i) ==
            LET item == Str(b.children[i])
            IN  IF ~item.ok THEN item
                ELSE Ok((IF b.ordered THEN IntToStr(i - 1) \o "." ELSE "*")
                        \o " " \o item.str)
    IN  Join("\n", [i \in 1..Len(b.children) |-> line(i)])

\* str(block): the __str__ the class of the block resolves to.
Str(b) ==
    CASE b.block_type = "BaseBlock" -> Raise("NotImplementedError")
      [] b.block_type = "Translatable" -> TranslatableStr(b)
      [] b.block_type = "RawDataBlock" -> Ok(OptToStr(b.data))
      [] b.block_type = "TextBlock" -> TextBlockStr(b)
      [] b.block_type = "LinkBlock" -> LinkBlockStr(b)
      [] b.block_type = "ImageBlock" -> ImageBlockStr(b)
      [] b.block_type = "HeadingBlock" -> HeadingBlockStr(b)
      [] b.block_type = "SeparatorBlock" -> Ok("---")
      [] b.block_type = "CodeBlock" -> CodeBlockStr(b)
      [] b.block_type = "HtmlBlock" -> Ok(b.code)
      [] b.block_type = "ListItemBlock" -> ListItemBlockStr(b)
      [] b.block_type = "ListBlock" -> ListBlockStr(b)

\* BaseBlock.should_be_translated
BaseShouldBeTranslated(b) == FALSE

\* Translatable.should_be_translated
UntranslatedIfFalsy(b) == b.translated_text \in {None, Some("")}
TranslatableShouldBeTranslated(b) == b.translated_text = None

\* block.should_be_translated(): Translatable comes before BaseBlock in the
\* bases of TextBlock and HeadingBlock; the other classes inherit BaseBlock's.
ShouldBeTranslatedOf(b) ==
    IF b.block_type \in {"Translatable", "TextBlock", "HeadingBlock"}
    THEN TranslatableShouldBeTranslated(b)
    ELSE BaseShouldBeTranslated(b)

\* The nodes drawn: every leaf kind over Texts and Translations, and containers
\* over a few children.
TranslatableLeaves ==
    {Translatable(t, tt) : t \in Texts, tt \in Translations}
    \cup {TextBlock(t[1], t[2], s, e) :
            t \in Texts \X Translations, s \in BOOLEAN, e \in BOOLEAN}
    \cup {HeadingBlock(t[3], t[1], t[2]) : t \in Texts \X Translations \X (1..MaxLevel)}
OtherLeaves ==
    {BaseBlock, SeparatorBlock}
    \cup {RawDataBlock("raw", d) : d \in {None, Some("x")}}
    \cup {ImageBlock("s.png", a, t) : a \in {DefaultAlt, Some("alt")}, t \in {None, Some("T")}}
    \cup {CodeBlock(c, l) : c \in {"", "x=1"}, l \in {None, Some(""), Some("py")}}
    \cup {HtmlBlock(c) : c \in {"", "<br>"}}
ItemChildren == {Translatable("Hola", Some("Hello")), TextBlock("Hola", None, FALSE, FALSE)}
LinkChildren == {TextBlock("Duck", None, FALSE, FALSE), TextBlock("", None, FALSE, FALSE),
                 BaseBlock}
ListItems == {ListItemBlock(c) : c \in SeqsUpTo(ItemChildren, MaxChildren)}
Containers ==
    {LinkBlock("u", t, x) :
        t \in {None, Some("T")},
        x \in {None} \cup {Some(c) : c \in SeqsUpTo(LinkChildren, MaxChildren)}}
    \cup ListItems
    \cup {ListBlock(c, o) : c \in SeqsUpTo(ListItems, MaxChildren), o \in BOOLEAN}
Blocks == TranslatableLeaves \cup OtherLeaves \cup Containers


\* ------------------------------------------------ encoding and decoding
\* A dict, as distinct from an instance of a class: its items by key.
Mapping(items) == [items |-> items]
IsDict(v) == DOMAIN v = {"items"}
Without(r, key) == [k \in DOMAIN r \ {key} |-> r[k]]
With(r, key, v) == [k \in DOMAIN r \cup {key} |-> IF k = key THEN v ELSE r[k]]

\* The classes of the module, and the names the module's globals() holds.
Classes ==
    {"BaseBlock", "Translatable", "RawDataBlock", "TextBlock", "LinkBlock", "ImageBlock",
     "HeadingBlock", "SeparatorBlock", "CodeBlock", "HtmlBlock", "ListItemBlock", "ListBlock"}
Globals == Classes \cup {"pydantic", "Any", "ClassVar", "Dict", "List", "Optional"}

\* The fields each class declares, the ones without a default, and the defaults.
FieldsOf(cls) ==
    CASE cls = "Translatable" -> {"text", "translated_text"}
      [] cls = "RawDataBlock" -> {"name", "data"}
      [] cls = "TextBlock" -> {"text", "translated_text", "strong", "emphasis"}
      [] cls = "LinkBlock" -> {"link", "title", "text"}
      [] cls = "ImageBlock" -> {"src", "alt", "title"}
      [] cls = "HeadingBlock" -> {"level", "text", "translated_text"}
      [] cls = "CodeBlock" -> {"code", "language"}
      [] cls = "HtmlBlock" -> {"code"}
      [] cls = "ListItemBlock" -> {"children"}
      [] cls = "ListBlock" -> {"children", "ordered"}
      [] OTHER -> {}
Required(cls) ==
    (FieldsOf(cls) \cap {"text", "name", "link", "src", "level", "code", "children"})
        \ (IF cls = "LinkBlock" THEN {"text"} ELSE {})
Default(cls, k) ==
    CASE k \in {"strong", "emphasis", "ordered"} -> FALSE
      [] k = "alt" -> DefaultAlt
      [] OTHER -> None

RECURSIVE Dict(_)
\* BaseBlock.dict: the fields, nested nodes encoded by their own dict(), and
\* block_type; a bare Translatable has pydantic's dict(), without block_type.
Dict(b) ==
    LET keys == IF b.block_type = "Translatable" THEN DOMAIN b \ {"block_type"} ELSE DOMAIN b
        item(k) ==
            IF k = "children"
            THEN [i \in 1..Len(b.children) |-> Dict(b.children[i])]
            ELSE IF k = "text" /\ b.block_type = "LinkBlock" /\ b.text # None
            THEN Some([i \in 1..Len(b.text[1]) |-> Dict(b.text[1][i])])
            ELSE b[k]
    IN Mapping([k \in keys |-> item(k)])

\* The one element of a singleton: Pick({F(x) : x \in {e}}) is F(e), with e
\* evaluated once.
Pick(S) == CHOOSE x \in S : TRUE

RECURSIVE Construct(_, _)
RECURSIVE ParseChildren(_, _)
\* The loop of validate over children, from child i on. parsed is
\* parsed_children; shared is what the children, which the caller's mapping
\* holds too, are afterwards: pop removes block_type from the child itself.
ParseChildren(children, i) ==
    IF i > Len(children) THEN [exc |-> "", parsed |-> <<>>, shared |-> <<>>]
    ELSE
        LET child == children[i]
            rest == SubSeq(children, i + 1, Len(children))
        IN  IF IsDict(child) /\ "block_type" \in DOMAIN child.items
            THEN
                LET block_type == child.items.block_type
                    popped == Without(child.items, "block_type")
                IN  IF block_type \notin Globals
                    THEN [exc |-> "Unknown Block Type", parsed |-> <<>>,
                          shared |-> <<Mapping(popped)>> \o rest]
                    ELSE IF block_type \notin Classes
                    THEN [exc |-> "TypeError", parsed |-> <<>>,
                          shared |-> <<Mapping(popped)>> \o rest]
                    ELSE Pick({
                        IF built.exc # ""
                        THEN [exc |-> built.exc, parsed |-> <<>>,
                              shared |-> <<Mapping(built.after)>> \o rest]
                        ELSE Pick({
                            [exc |-> more.exc,
                             parsed |-> <<built.value>> \o more.parsed,
                             shared |-> <<Mapping(built.after)>> \o more.shared]
                            : more \in {ParseChildren(children, i + 1)}})
                        : built \in {Construct(block_type, popped)}})
            ELSE Pick({
                [exc |-> more.exc,
                 parsed |-> <<child>> \o more.parsed,
                 shared |-> <<child>> \o more.shared]
                : more \in {ParseChildren(children, i + 1)}})

\* BaseBlock.validate on the values of a node: only the key 'children' is read.
RootValidate(values) ==
    IF "children" \notin DOMAIN values THEN [exc |-> "", values |-> values, children |-> <<>>]
    ELSE IF values.children = <<>> THEN [exc |-> "", values |-> values, children |-> <<>>]
    ELSE Pick({
        [exc |-> p.exc,
         values |-> IF p.exc = "" THEN With(values, "children", p.parsed) ELSE values,
         children |-> p.shared]
        : p \in {ParseChildren(values.children, 1)}})

\* The validation of one element of a field of type List[Translatable]:
\* pydantic's own BaseModel.validate, which Translatable does not shadow.
TranslatableValidate(item) ==
    IF IsDict(item)
    THEN Pick({[exc |-> made.exc, value |-> made.value]
               : made \in {Construct("Translatable", item.items)}})
    ELSE IF item.block_type \in {"Translatable", "TextBlock", "HeadingBlock"}
    THEN [exc |-> "", value |-> item]
    ELSE [exc |-> "value is not a valid Translatable", value |-> NoBlock]

\* The validation of one element of a field of type List[BaseBlock] or
\* List[ListItemBlock]: the class's validate is the root validator above, which
\* shadows pydantic's, reads 'children' and returns what it was given. A dict
\* is the caller's own child, so shared is what that child is afterwards.
BaseBlockValidate(item) ==
    IF IsDict(item)
    THEN Pick({
        IF rv.exc # ""
        THEN [exc |-> rv.exc, value |-> item,
              shared |-> Mapping(With(item.items, "children", rv.children))]
        ELSE [exc |-> "", value |-> Mapping(rv.values), shared |-> Mapping(rv.values)]
        : rv \in {RootValidate(item.items)}})
    ELSE [exc |-> "", value |-> item, shared |-> item]

\* The fields of cls from the values rv the root validator returned: value is
\* the instance, exc the cause of the ValidationError, after the items of the
\* mapping the kwargs were spread from, once the call is over.
ValidateFields(cls, kwargs, rv, checked) ==
    LET values == rv.values
        given == FieldsOf(cls) \cap DOMAIN values
        hadChildren == IF "children" \in DOMAIN kwargs THEN kwargs.children # <<>> ELSE FALSE
        afterRoot == IF hadChildren THEN With(kwargs, "children", rv.children) ELSE kwargs
        field(k) ==
            IF k \notin given THEN Default(cls, k)
            ELSE IF k = "children" /\ cls \in {"ListItemBlock", "ListBlock"}
            THEN [i \in 1..Len(checked) |-> checked[i].value]
            ELSE IF cls = "LinkBlock" /\ k = "text" /\ values.text # None
            THEN Some([i \in 1..Len(checked) |-> checked[i].value])
            ELSE values[k]
        sharedNow(i) ==
            IF cls = "ListBlock" /\ hadChildren
            THEN (IF IsDict(kwargs.children[i])
                     /\ "block_type" \in DOMAIN kwargs.children[i].items
                  THEN rv.children[i] ELSE checked[i].shared)
            ELSE IF cls = "LinkBlock" THEN checked[i].shared
            ELSE afterRoot.children[i]
        after ==
            IF checked = <<>> THEN afterRoot
            ELSE IF cls = "LinkBlock"
            THEN With(afterRoot, "text", Some([i \in 1..Len(checked) |-> sharedNow(i)]))
            ELSE With(afterRoot, "children", [i \in 1..Len(checked) |-> sharedNow(i)])
        exc ==
            IF Required(cls) \ given # {} THEN "field required"
            ELSE IF \E i \in 1..Len(checked) : checked[i].exc # ""
            THEN (CHOOSE e \in {checked[i].exc : i \in 1..Len(checked)} : e # "")
            ELSE IF cls = "ImageBlock" /\ "alt" \in given /\ values.alt = DefaultAlt
            THEN "str type expected"
            ELSE ""
    IN  [exc |-> exc,
         value |-> IF exc # "" THEN NoBlock
                   ELSE [k \in {"block_type"} \cup FieldsOf(cls) |->
                            IF k = "block_type" THEN cls ELSE field(k)],
         after |-> after]

\* The elements of the list field of cls, each to be validated on its own.
Elements(cls, values) ==
    IF cls \in {"ListItemBlock", "ListBlock"} /\ "children" \in DOMAIN values
    THEN values.children
    ELSE IF cls = "LinkBlock" /\ "text" \in DOMAIN values
    THEN (IF values.text = None THEN <<>> ELSE values.text[1])
    ELSE <<>>

\* cls(**kwargs): the root validator, then the fields.
Construct(cls, kwargs) ==
    Pick({
        IF rv.exc # ""
        THEN [exc |-> rv.exc, value |-> NoBlock,
              after |-> With(kwargs, "children", rv.children)]
        ELSE Pick({
            ValidateFields(cls, kwargs, rv, checked)
            : checked \in {[i \in 1..Len(Elements(cls, rv.values)) |->
                            IF cls = "ListItemBlock"
                            THEN TranslatableValidate(Elements(cls, rv.values)[i])
                            ELSE BaseBlockValidate(Elements(cls, rv.values)[i])]}})
        : rv \in {IF cls = "Translatable"
                  THEN [exc |-> "", values |-> kwargs, children |-> <<>>]
                  ELSE RootValidate(kwargs)}})

\* The edits drawn for a mapping before it is decoded: a key dropped from the
\* node or from the first child of its children or text, or that child's
\* block_type set to another name.
Discriminants == {"BaseBlock", "Translatable", "SeparatorBlock", "Any", "Bogus"}
FirstChildren(m) ==
    (IF "children" \in DOMAIN m.items /\ IsDict(m)
     THEN (IF m.items.children # <<>> THEN {"children"} ELSE {}) ELSE {})
    \cup
    (IF "link" \in DOMAIN m.items
     THEN (IF m.items.text \notin {None, Some(<<>>)} THEN {"text"} ELSE {}) ELSE {})
FirstChild(m, slot) ==
    IF slot = "text" THEN m.items.text[1][1] ELSE m.items.children[1]
Edits(m) ==
    {[slot |-> "", op |-> "drop", arg |-> k] : k \in DOMAIN m.items \ {"block_type"}}
    \cup UNION {
        {[slot |-> s, op |-> "drop", arg |-> k] : k \in DOMAIN FirstChild(m, s).items}
        \cup {[slot |-> s, op |-> "type", arg |-> d] :
                d \in IF "block_type" \in DOMAIN FirstChild(m, s).items
                      THEN Discriminants \ {FirstChild(m, s).items.block_type} ELSE {}}
        : s \in FirstChildren(m)}
EditChild(child, e) ==
    IF e.op = "drop" THEN Mapping(Without(child.items, e.arg))
    ELSE Mapping(With(child.items, "block_type", e.arg))
Edited(m, e) ==
    IF e.slot = "" THEN Mapping(Without(m.items, e.arg))
    ELSE IF e.slot = "text"
    THEN Mapping(With(m.items, "text",
            Some(<<EditChild(FirstChild(m, "text"), e)>> \o Tail(m.items.text[1]))))
    ELSE Mapping(With(m.items, "children",
            <<EditChild(FirstChild(m, "children"), e)>> \o Tail(m.items.children)))

InitRender ==
    /\ settings_path = [is_list |-> TRUE, value |-> <<>>]
    /\ processes = 1
    /\ source_files = <<>>
    /\ runPc = "start"
    /\ providers = 0
    /\ tasks = <<>>
    /\ chunkFailed = FALSE
    /\ exec = [e \in Executors |-> IdleExec]
    /\ doc = [d \in Docs |-> NoDoc]
    /\ held = [i \in Instances |-> 0]
    /\ block \in Blocks
    /\ rendered = NotRendered
    /\ needs = None
    /\ tree = NoBlock
    /\ mapping = None
    /\ tampered = None
    /\ decoded = <<>>

\* str(block)
Render ==
    /\ rendered = NotRendered
    /\ rendered' = Str(block)
    /\ UNCHANGED <<block, needs>>
    /\ UNCHANGED <<appVars, codecVars>>

\* block.should_be_translated()
ShouldBeTranslated ==
    /\ needs = None
    /\ needs' = Some(ShouldBeTranslatedOf(block))
    /\ UNCHANGED <<block, rendered>>
    /\ UNCHANGED <<appVars, codecVars>>

NextRender == Render \/ ShouldBeTranslated

SpecRender == InitRender /\ [][NextRender]_vars

\* ------------------------------------------------ encode, then decode
MaxDecodes == 2

InitCodec ==
    /\ settings_path = [is_list |-> TRUE, value |-> <<>>]
    /\ processes = 1
    /\ source_files = <<>>
    /\ runPc = "start"
    /\ providers = 0
    /\ tasks = <<>>
    /\ chunkFailed = FALSE
    /\ exec = [e \in Executors |-> IdleExec]
    /\ doc = [d \in Docs |-> NoDoc]
    /\ held = [i \in Instances |-> 0]
    /\ block = NoBlock
    /\ rendered = NotRendered
    /\ needs = None
    /\ tree \in Blocks
    /\ mapping = None
    /\ tampered = None
    /\ decoded = <<>>

\* tree.dict()
Encode ==
    /\ mapping = None
    /\ mapping' = Some(Dict(tree))
    /\ UNCHANGED <<tree, tampered, decoded>>
    /\ UNCHANGED <<appVars, renderVars>>

\* The mapping is edited between the encoding and the first decoding.
Tamper ==
    /\ mapping # None
    /\ tampered = None
    /\ decoded = <<>>
    /\ \E e \in Edits(mapping[1]) :
        /\ mapping' = Some(Edited(mapping[1], e))
        /\ tampered' = Some(e)
    /\ UNCHANGED <<tree, decoded>>
    /\ UNCHANGED <<appVars, renderVars>>

\* The class the tree was of is constructed from the mapping: cls(**mapping).
Decode ==
    /\ mapping # None
    /\ Len(decoded) < MaxDecodes
    /\ LET made == Construct(tree.block_type, mapping[1].items) IN
        /\ decoded' = Append(decoded, [exc |-> made.exc, value |-> made.value])
        /\ mapping' = Some(Mapping(made.after))
    /\ UNCHANGED <<tree, tampered>>
    /\ UNCHANGED <<appVars, renderVars>>

NextCodec == Encode \/ Tamper \/ Decode

SpecCodec == InitCodec /\ [][NextCodec]_vars

\* ------------------------------------------------------------ properties
RunEnded == runPc \in {"returned", "raised"}
Sources == 1..Len(source_files)

\* C1: when document.translate raises in process_file, the failure is reported
\* and the document produces no output: document.write is never called for it
\* and no 'Processed file' message is emitted for it.
C1_TranslateFailureNoOutput ==
    \A d \in Docs :
        doc[d].translate = "raised" =>
            /\ "translate" \in doc[d].reported
            /\ doc[d].writeCalls = 0
            /\ ~doc[d].echoed

\* A document whose translate raised and whose process_file has ended.
C1_Witness ==
    \E d \in Docs : doc[d].translate = "raised" /\ doc[d].outcome = "returned"

\* C2: no failure in one document's pipeline affects another document: when
\* the run has ended, every source file has been processed to its own outcome.
C2_EveryDocumentProcessed ==
    RunEnded => \A d \in Sources : doc[d].outcome # "pending"

\* C3: every acquisition of the capability is followed by exactly one release,
\* whether translate returns or raises; a document whose process_file has ended
\* has released what it acquired, and at the end of a run nothing is held.
C3_ReleasedExactlyOnce ==
    /\ \A d \in Docs :
        /\ doc[d].exited <= doc[d].entered
        /\ doc[d].entered <= 1
        /\ doc[d].outcome # "pending" => doc[d].exited = doc[d].entered
        /\ doc[d].entered > doc[d].exited =>
               \E e \in Executors :
                   exec[e].cur = d /\ exec[e].pc \in {"translate", "exit"}
    /\ RunEnded => \A i \in Instances : held[i] = 0

\* A run has ended in which one document's translate raised and another's
\* returned, each after acquiring and releasing the capability once.
C3_Witness ==
    /\ RunEnded
    /\ \E d1, d2 \in Docs :
        /\ doc[d1].translate = "raised" /\ doc[d1].entered = 1 /\ doc[d1].exited = 1
        /\ doc[d2].translate = "ok" /\ doc[d2].entered = 1 /\ doc[d2].exited = 1

\* C4: when the document-level gate returns false, the rest of the pipeline is
\* skipped (no acquisition, no translate, no write) and process_file returns;
\* the gate is evaluated once per document, never more.
C4_GateFalseSkipsPipeline ==
    \A d \in Docs :
        /\ doc[d].gateEvals <= 1
        /\ (doc[d].outcome # "pending" /\ doc[d].read = "ok") => doc[d].gateEvals = 1
        /\ doc[d].gate = "false" =>
               /\ doc[d].enterCalls = 0
               /\ doc[d].translateCalls = 0
               /\ doc[d].writeCalls = 0
               /\ ~doc[d].echoed
               /\ doc[d].outcome = "returned"

\* A document whose gate returned false.
C4_Witness ==
    \E d \in Docs : doc[d].gate = "false" /\ doc[d].gateEvals = 1

\* C5 as stated: no two documents ever use the same capability instance, on
\* either path.
C5_NoTwoDocumentsShareInstance ==
    \A d1, d2 \in Docs :
        (d1 # d2 /\ doc[d1].instance # -1 /\ doc[d2].instance # -1)
            => doc[d1].instance # doc[d2].instance

\* C5 as amended: one provider is made per run; no two documents processed by
\* different workers use the same capability instance; an instance is held by
\* at most one document at a time (on the single-process path the documents
\* use the one instance one after another).
C5_OwnInstancePerWorker ==
    /\ providers <= 1
    /\ \A d1, d2 \in Docs :
        (/\ doc[d1].instance # -1 /\ doc[d2].instance # -1
         /\ doc[d1].worker # doc[d2].worker)
            => doc[d1].instance # doc[d2].instance
    /\ \A i \in Instances :
        Cardinality({d \in Docs : doc[d].instance = i
                                  /\ doc[d].entered > doc[d].exited}) <= 1

\* Two documents processed by different workers have both used the capability.
C5_Witness ==
    \E d1, d2 \in Docs :
        /\ doc[d1].worker >= 1 /\ doc[d2].worker >= 1
        /\ doc[d1].worker # doc[d2].worker
        /\ doc[d1].translateCalls = 1 /\ doc[d2].translateCalls = 1

\* C6: the outcome of Application.run reflects whether any document failed: a
\* run in which a document's read or translation failed does not end like a
\* run in which every document succeeded or was skipped (run returning).
C6_RunStatusReflectsFailure ==
    runPc = "returned" =>
        \A d \in Docs : doc[d].read # "raised" /\ doc[d].translate # "raised"

\* C7: when MarkdownDocument.from_file raises, process_file reports the error
\* and returns normally without evaluating the gate, acquiring the capability,
\* translating or writing.
C7_ReadFailureSkipsDocument ==
    \A d \in Docs :
        doc[d].read = "raised" =>
            /\ "read" \in doc[d].reported
            /\ doc[d].gateEvals = 0
            /\ doc[d].enterCalls = 0
            /\ doc[d].translateCalls = 0
            /\ doc[d].writeCalls = 0
            /\ doc[d].outcome = "returned"

\* A document whose from_file raised.
C7_Witness ==
    \E d \in Docs : doc[d].read = "raised"

\* C8: document.translate(provider) is invoked only while the capability is
\* acquired: after __enter__ and before __exit__.
C8_UsedOnlyWhileAcquired ==
    /\ \A e \in Executors :
        exec[e].pc = "translate" => held[exec[e].inst] = exec[e].cur
    /\ \A d \in Docs :
        /\ ~doc[d].unheldUse
        /\ doc[d].translateCalls <= doc[d].entered
        /\ doc[d].exited > 0 => doc[d].translateCalls = 1

\* A document on which translate has been invoked.
C8_Witness ==
    \E d \in Docs : doc[d].translateCalls = 1 /\ doc[d].exited = 0

\* C9: rendering a Translatable leaf whose translated_text is set emits the
\* original text, a blank line, then the translated text (TextBlock 'Hola' with
\* translated_text 'Hello' renders as 'Hola\n\nHello'); a leaf whose
\* translated_text is null renders only its original text. Stated of the
\* TextBlock leaves without style flags.
C9_TranslatedLeafRendersBoth ==
    (/\ rendered # NotRendered
     /\ block.block_type = "TextBlock"
     /\ ~block.strong /\ ~block.emphasis)
        => rendered = IF block.translated_text = None
                      THEN Ok(block.text)
                      ELSE Ok(block.text \o "\n\n" \o block.translated_text[1])

\* No node of the tree is an instance of the abstract bases themselves.
RECURSIVE OfConcreteKinds(_)
OfConcreteKinds(b) ==
    /\ b.block_type \notin {"BaseBlock", "Translatable"}
    /\ b.block_type \in {"ListItemBlock", "ListBlock"} =>
           \A i \in 1..Len(b.children) : OfConcreteKinds(b.children[i])
    /\ (b.block_type = "LinkBlock" /\ b.text # None) =>
           \A i \in 1..Len(b.text[1]) : OfConcreteKinds(b.text[1][i])

\* C10: rendering is total: for every node of every concrete kind that has its
\* kind's required fields (a LinkBlock whose text is absent included), __str__
\* returns a string and never raises.
C10_RenderingIsTotal ==
    (rendered # NotRendered /\ OfConcreteKinds(block)) => rendered.ok

\* C17: in process_file, document.write happens only after translate has
\* returned normally and after the capability has been released; the
\* 'Processed file' report is emitted only after write has completed; a
\* document is never written while the capability is still held.
C17_WriteAfterRelease ==
    /\ \A e \in Executors :
        /\ exec[e].pc = "write" =>
               /\ doc[exec[e].cur].translate = "ok"
               /\ doc[exec[e].cur].exited = 1
               /\ held[exec[e].inst] = 0
        /\ exec[e].pc = "echo" => doc[exec[e].cur].writeCalls = 1
    /\ \A d \in Docs :
        /\ doc[d].writeCalls > 0 =>
               (doc[d].translate = "ok" /\ doc[d].exited = doc[d].entered
                /\ doc[d].exited = 1)
        /\ doc[d].echoed => (doc[d].writeCalls = 1 /\ doc[d].outcome = "returned")

\* A document has been written and reported.
C17_Witness ==
    \E d \in Docs : doc[d].echoed /\ doc[d].writeCalls = 1 /\ doc[d].exited = 1

ConfiguredPaths == {AsList(settings_path)[i] : i \in 1..Len(AsList(settings_path))}
Processed(d) == doc[d].worker # -1

\* C19: a run whose configured paths all exist but yield no source file (an
\* empty directory, or only files whose name contains '_translated') ends
\* normally, without processing any document and without raising.
C19_NoSourceFileEndsNormally ==
    (/\ runPc # "start"
     /\ ConfiguredPaths # {}
     /\ \A p \in ConfiguredPaths : Exists(p)
     /\ \A g \in GlobOrders :
            SourceFiles(CollectFiles(AsList(settings_path), g).files) = <<>>)
        => (runPc = "returned" /\ \A d \in Docs : ~Processed(d))

\* C20: no file whose name contains '_translated' is ever passed to
\* process_file, whether it was given as a path or found under a directory;
\* and if a configured path does not exist, the run fails before any document
\* is processed.
C20_TranslatedNeverProcessed ==
    /\ \A d \in Docs : Processed(d) => ~Contains(Name(doc[d].file), "_translated")
    /\ \A e \in Executors :
        exec[e].cur # 0 => ~Contains(Name(source_files[exec[e].cur]), "_translated")
    /\ ((\E p \in ConfiguredPaths : ~Exists(p)) /\ runPc # "start") =>
           /\ runPc = "raised"
           /\ providers = 0
           /\ \A d \in Docs : doc[d] = NoDoc

\* A document is processed in a run that was given a translated file by name
\* and a directory holding one.
C20_Witness ==
    /\ PathATranslated \in ConfiguredPaths
    /\ PathDocs \in ConfiguredPaths
    /\ \E d \in Docs : Processed(d) /\ doc[d].file = <<"docs", "a.md">>

\* C13: should_be_translated returns true exactly when the node's kind is
\* Translatable and its translated_text is null, and false for every other
\* node: always false for CodeBlock, HtmlBlock, SeparatorBlock, ListBlock and
\* ListItemBlock, and false for a Translatable node once translated_text is set.
C13_ShouldBeTranslatedExactly ==
    needs # None =>
        /\ needs \in {Some(TRUE), Some(FALSE)}
        /\ block.block_type \in {"CodeBlock", "HtmlBlock", "SeparatorBlock", "ListBlock",
                                 "ListItemBlock", "BaseBlock", "RawDataBlock",
                                 "LinkBlock", "ImageBlock"} => needs = Some(FALSE)
        /\ block.block_type \in {"Translatable", "TextBlock", "HeadingBlock"} =>
               needs = Some(block.translated_text = None)

\* should_be_translated has answered for a Translatable node whose
\* translated_text is set, to the empty string.
C13_Witness ==
    /\ needs = Some(FALSE)
    /\ block.block_type = "TextBlock"
    /\ block.translated_text = Some("")

\* The lines of a rendered list, as the claim has them: item i of an ordered
\* list after 'i.', counting from the start 1.
RECURSIVE NumberedLines(_, _)
NumberedLines(items, i) ==
    IF i > Len(items) THEN ""
    ELSE IntToStr(i) \o ". " \o Str(items[i]).str
         \o (IF i < Len(items) THEN "\n" ELSE "") \o NumberedLines(items, i + 1)

\* C14: rendering a ListBlock prefixes each item, in child order, with 'N.'
\* where N increments by one from the list's start (1 for a list parsed from
\* '1. ...') when ordered, one item per line. Stated of the ordered lists.
C14_OrderedListNumbersFromStart ==
    (/\ rendered # NotRendered
     /\ block.block_type = "ListBlock"
     /\ block.ordered
     /\ \A i \in 1..Len(block.children) : Str(block.children[i]).ok)
        => rendered = Ok(NumberedLines(block.children, 1))

\* ' "title"' when a title is present
QuotedTitle(title) == IF title = None THEN "" ELSE " \"" \o title[1] \o "\""

\* C16: a LinkBlock renders as '[' + render of its text + '](' + url + ')', with
\* the quoted title when one is present; an ImageBlock as '![alt](src)', with
\* the title when present; the title never stands in for the link text. Stated
\* of the links with at most one text node and the images with an alt.
C16_LinkAndImageRendering ==
    /\ (/\ rendered # NotRendered
        /\ block.block_type = "LinkBlock"
        /\ block.text # None
        /\ Len(block.text[1]) <= 1
        /\ \A i \in 1..Len(block.text[1]) : Str(block.text[1][i]).ok)
           => rendered = Ok("[" \o (IF block.text[1] = <<>> THEN ""
                                    ELSE Str(block.text[1][1]).str)
                            \o "](" \o block.link \o QuotedTitle(block.title) \o ")")
    /\ (/\ rendered # NotRendered
        /\ block.block_type = "ImageBlock"
        /\ block.alt # DefaultAlt)
           => rendered = Ok("![" \o block.alt[1] \o "](" \o block.src
                            \o QuotedTitle(block.title) \o ")")

\* The mapping as it was when the first decoding began.
Given == IF tampered = None THEN Dict(tree) ELSE Edited(Dict(tree), tampered[1])

\* C11: for every valid tree, decoding the mapping produced by encoding it
\* yields a tree equal to the original, every nested node keeping its concrete
\* kind and fields (ListItemBlock children, ListBlock children, LinkBlock text).
\* The valid trees are taken to be those whose nodes are of concrete kinds.
C11_DecodeOfEncodeIsTheTree ==
    (decoded # <<>> /\ tampered = None /\ OfConcreteKinds(tree)) =>
        /\ decoded[1].exc = ""
        /\ decoded[1].value = tree

\* The closed set of concrete block kinds of the specification.
ConcreteKinds == Classes \ {"BaseBlock", "Translatable"}

\* C12: decoding fails whenever the discriminant of a descendant does not name
\* one of the concrete block kinds; no node is constructed from such a
\* discriminant.
C12_UnknownDiscriminantFails ==
    (/\ decoded # <<>>
     /\ tampered # None
     /\ tampered[1].op = "type"
     /\ tampered[1].arg \notin ConcreteKinds)
        => decoded[1].exc # ""

\* The kind of the node an edit was made to.
EditedKind ==
    IF tampered[1].slot = "" THEN tree.block_type
    ELSE IF tampered[1].slot = "text" THEN tree.text[1][1].block_type
    ELSE tree.children[1].block_type

\* C15: decoding fails when a node mapping lacks a required field of its kind,
\* a child mapping that lacks the discriminant included; such a child is never
\* accepted as an undecoded raw mapping.
C15_MalformedNodeFails ==
    (/\ decoded # <<>>
     /\ tampered # None
     /\ tampered[1].op = "drop"
     /\ tampered[1].arg \in Required(EditedKind) \cup {"block_type"})
        => decoded[1].exc # ""

\* C18: decoding does not modify its input: after a block is constructed from
\* a mapping the mapping, every child mapping and its block_type included, is
\* as it was, so decoding it twice yields two equal trees.
C18_DecodeLeavesMappingUnchanged ==
    /\ decoded # <<>> => mapping = Some(Given)
    /\ Len(decoded) >= 2 => decoded[2] = decoded[1]

====
